---------------------------- MODULE Spec2Model ----------------------------
(***************************************************************************)
(* Model of upfolder_checker.py: the git-status text parser                *)
(* (get_git_status), the repository locator (scan_directory_for_git_repos) *)
(* and the report aggregator (main).                                       *)
(*                                                                         *)
(* Text is modelled character by character: a Python str is a sequence of  *)
(* one-character strings, so that `in`, startswith, lower, strip and split *)
(* are computed the way Python computes them.                              *)
(***************************************************************************)
EXTENDS Integers, Sequences, FiniteSets, TLC

VARIABLES
    \* get_git_status
    pc,               \* where get_git_status is: "run", "loop", "done"
    lines,            \* output.split('\n')
    idx,              \* how many lines the for loop has consumed
    current_section,  \* NoSection, "staged", "modified" or "untracked"
    status_info,      \* the three buckets
    returned,         \* what get_git_status returned (None until it returns)
    invocation,       \* subprocess.run: "pending", "raised", "nonzero", "ok"
    error_printed,    \* whether the except branch printed its message
    calls,            \* the calls that have returned: their lines and value
    \* the file system
    git_dirs,         \* the directories that hold a .git directory
    unreadable,       \* the directories that cannot be listed
    \* scan_directory_for_git_repos
    scan_pc,          \* where the locator is: "walk", "done"
    walk_stack,       \* the directories os.walk has still to walk, next first
    visited,          \* the directories os.walk has yielded, in order
    scan_git_repos,   \* the locator's git_repos list
    \* main
    main_pc,          \* where main is: "scan", "loop", "report", "exit", "aborted"
    repos_in_dir,     \* what scan_directory_for_git_repos returned
    git_repos,        \* the roots looked at so far
    repos_with_changes,
    total_modified_count,
    total_staged_count,
    total_untracked_count,
    summary,          \* the branch of the final report: "changes", "all_clean"
    outcomes          \* what `git status` did for each root looked at so far

parser_vars == <<pc, lines, idx, current_section, status_info, returned,
                 invocation>>

main_vars == <<git_dirs, main_pc, repos_in_dir, git_repos, repos_with_changes,
               total_modified_count, total_staged_count, total_untracked_count,
               summary, outcomes>>

scan_vars == <<unreadable, scan_pc, walk_stack, visited, scan_git_repos>>

vars == <<parser_vars, error_printed, calls, main_vars, scan_vars>>

(***************************************************************************)
(* Bounds of the model.                                                    *)
(***************************************************************************)
\* Most calls of get_git_status that one run of repeated calls makes.
MaxCalls == 3

\* Longest status text, in lines, that the invocation hands to the parser
\* (the texts of ExampleLines are longer and are added as they are).
MaxLines == 3

(***************************************************************************)
(* Python values.                                                          *)
(***************************************************************************)
\* Python's None as get_git_status returns it ("no changes", or a failed
\* run): a value that is no status record.
None == [none |-> TRUE]

\* Python's None as the value of current_section: no section is open.
NoSection == "None"

(***************************************************************************)
(* str methods, on sequences of characters.                                *)
(***************************************************************************)
\* The whitespace characters of the texts that str.strip() removes (it
\* treats the vertical tab and the other Unicode spaces the same way).
Whitespace == {" ", "\t", "\n", "\r", "\f"}

UpperCase == <<"A", "B", "C", "D", "E", "F", "G", "H", "I", "J", "K", "L", "M",
               "N", "O", "P", "Q", "R", "S", "T", "U", "V", "W", "X", "Y", "Z">>

LowerCase == <<"a", "b", "c", "d", "e", "f", "g", "h", "i", "j", "k", "l", "m",
               "n", "o", "p", "q", "r", "s", "t", "u", "v", "w", "x", "y", "z">>

\* str.lower() on one character.
LowerChar(c) ==
    IF \E k \in 1..26 : UpperCase[k] = c
    THEN LowerCase[CHOOSE k \in 1..26 : UpperCase[k] = c]
    ELSE c

\* s.lower()
lower(s) == [k \in 1..Len(s) |-> LowerChar(s[k])]

\* s.startswith(p)
startswith(s, p) == Len(p) <= Len(s) /\ SubSeq(s, 1, Len(p)) = p

\* p in s   (substring containment)
contains(s, p) ==
    \E k \in 1..(Len(s) - Len(p) + 1) : SubSeq(s, k, k + Len(p) - 1) = p

RECURSIVE lstrip(_)
lstrip(s) ==
    IF s # <<>> /\ Head(s) \in Whitespace THEN lstrip(Tail(s)) ELSE s

RECURSIVE rstrip(_)
rstrip(s) ==
    IF s # <<>> /\ s[Len(s)] \in Whitespace
    THEN rstrip(SubSeq(s, 1, Len(s) - 1))
    ELSE s

\* s.strip()
strip(s) == rstrip(lstrip(s))

\* Index of the first occurrence of character c in s, 0 when there is none.
find(s, c) ==
    IF \E k \in 1..Len(s) : s[k] = c
    THEN CHOOSE k \in 1..Len(s) : s[k] = c /\ \A j \in 1..(k - 1) : s[j] # c
    ELSE 0

\* s.split(c, 1): at most one split, at the first c.
split1(s, c) ==
    LET k == find(s, c)
    IN  IF k = 0 THEN <<s>>
        ELSE <<SubSeq(s, 1, k - 1), SubSeq(s, k + 1, Len(s))>>

\* s.split(c): split at every c; the result always has at least one piece.
RECURSIVE split(_, _)
split(s, c) ==
    LET k == find(s, c)
    IN  IF k = 0 THEN <<s>>
        ELSE <<SubSeq(s, 1, k - 1)>> \o split(SubSeq(s, k + 1, Len(s)), c)

\* "\n".join(ls): the text whose lines are ls.
RECURSIVE join(_)
join(ls) ==
    IF ls = <<>> THEN <<>>
    ELSE IF Len(ls) = 1 THEN ls[1]
    ELSE ls[1] \o <<"\n">> \o join(Tail(ls))

(***************************************************************************)
(* The literals of get_git_status.                                         *)
(***************************************************************************)
\* 'Changes to be committed:'
MarkerStaged ==
    <<"C","h","a","n","g","e","s"," ","t","o"," ","b","e"," ",
      "c","o","m","m","i","t","t","e","d",":">>

\* 'Changes not staged for commit:'
MarkerModified ==
    <<"C","h","a","n","g","e","s"," ","n","o","t"," ","s","t","a","g","e","d"," ",
      "f","o","r"," ","c","o","m","m","i","t",":">>

\* 'Untracked files:'
MarkerUntracked ==
    <<"U","n","t","r","a","c","k","e","d"," ","f","i","l","e","s",":">>

\* 'use "git'
HintUseGit == <<"u","s","e"," ","\"","g","i","t">>

\* 'include in what will be committed'
HintInclude ==
    <<"i","n","c","l","u","d","e"," ","i","n"," ","w","h","a","t"," ",
      "w","i","l","l"," ","b","e"," ","c","o","m","m","i","t","t","e","d">>

\* 'no changes added'
HintNoChanges ==
    <<"n","o"," ","c","h","a","n","g","e","s"," ","a","d","d","e","d">>

\* The empty status_info dict of the source.
EmptyInfo == [modified |-> <<>>, staged |-> <<>>, untracked |-> <<>>]


(***************************************************************************)
(* get_git_status: one iteration of `for line in lines`.                   *)
(***************************************************************************)
\* The header chain with its tests in the opposite order.
HeaderSectionUntrackedFirst(line) ==
    IF contains(line, MarkerUntracked) THEN "untracked"
    ELSE IF contains(line, MarkerModified) THEN "modified"
    ELSE IF contains(line, MarkerStaged) THEN "staged"
    ELSE NoSection

\* The header chain matching on line.lower().
HeaderSectionIgnoringCase(line) ==
    IF contains(lower(line), lower(MarkerStaged)) THEN "staged"
    ELSE IF contains(lower(line), lower(MarkerModified)) THEN "modified"
    ELSE IF contains(lower(line), lower(MarkerUntracked)) THEN "untracked"
    ELSE NoSection

\* The if/elif chain of the section headers: the section the line opens,
\* NoSection when the line contains no marker.
HeaderSection(line) ==
    IF contains(line, MarkerStaged) THEN "staged"
    ELSE IF contains(line, MarkerModified) THEN "modified"
    ELSE IF contains(line, MarkerUntracked) THEN "untracked"
    ELSE NoSection

\* The indentation test taking any leading whitespace for an indentation.
IsIndentedByAnyWhitespace(line) == line # <<>> /\ Head(line) \in Whitespace

\* not line.startswith('\t') and not line.startswith('  '), negated.
IsIndented(line) ==
    startswith(line, <<"\t">>) \/ startswith(line, <<" ", " ">>)

\* The hint test without .lower().
IsHintCaseSensitive(line) ==
    \/ contains(line, HintUseGit)
    \/ contains(line, HintInclude)
    \/ contains(line, HintNoChanges)

\* The three hint phrases, looked for in line.lower().
IsHint(line) ==
    \/ contains(lower(line), HintUseGit)
    \/ contains(lower(line), HintInclude)
    \/ contains(lower(line), HintNoChanges)

\* The formatting without the trimming of the two pieces.
FormatEntryUntrimmed(parts) == parts[1] \o <<":">> \o parts[2]

\* f"{status_prefix}: {file_name}" of the two pieces of stripped.split(':', 1).
FormatEntry(parts) == strip(parts[1]) \o <<":", " ">> \o strip(parts[2])

\* The extraction that leaves out an entry its bucket already holds.
ExtractEntryDeduplicating(section, info, line) ==
    LET stripped == strip(line)
        entry == IF section \in {"modified", "staged"} /\ contains(stripped, <<":">>)
                 THEN FormatEntry(split1(stripped, ":"))
                 ELSE stripped
    IN  IF /\ stripped # <<>>
           /\ ~startswith(stripped, <<"(">>)
           /\ section \in {"modified", "staged", "untracked"}
           /\ \A k \in 1..Len(info[section]) : info[section][k] # entry
        THEN [info EXCEPT ![section] = Append(@, entry)]
        ELSE info

\* The extraction without the test for an empty stripped line.
ExtractEntryKeepingBlank(section, info, line) ==
    LET stripped == strip(line)
    IN  IF ~startswith(stripped, <<"(">>)
        THEN IF section \in {"modified", "staged"}
             THEN IF contains(stripped, <<":">>)
                  THEN [info EXCEPT ![section] =
                                        Append(@, FormatEntry(split1(stripped, ":")))]
                  ELSE [info EXCEPT ![section] = Append(@, stripped)]
             ELSE IF section = "untracked"
                  THEN [info EXCEPT ![section] = Append(@, stripped)]
                  ELSE info
        ELSE info

\* The extraction without the test for a leading parenthesis.
ExtractEntryKeepingParentheses(section, info, line) ==
    LET stripped == strip(line)
    IN  IF stripped # <<>>
        THEN IF section \in {"modified", "staged"}
             THEN IF contains(stripped, <<":">>)
                  THEN [info EXCEPT ![section] =
                            Append(@, FormatEntry(split1(stripped, ":")))]
                  ELSE [info EXCEPT ![section] = Append(@, stripped)]
             ELSE [info EXCEPT ![section] = Append(@, stripped)]
        ELSE info

\* The file-name extraction at the end of the loop body: status_info after
\* the line has been looked at as an entry of the open section.
ExtractEntry(section, info, line) ==
    LET stripped == strip(line)
    IN  IF stripped # <<>> /\ ~startswith(stripped, <<"(">>)
        THEN IF section \in {"modified", "staged"}
             THEN IF contains(stripped, <<":">>)
                  THEN LET parts == split1(stripped, ":")
                       IN  IF Len(parts) = 2
                           THEN [info EXCEPT ![section] = Append(@, FormatEntry(parts))]
                           ELSE info
                  ELSE [info EXCEPT ![section] = Append(@, stripped)]
             ELSE IF section = "untracked"
                  THEN [info EXCEPT ![section] = Append(@, stripped)]
                  ELSE info
        ELSE info

\* The loop body in which a non-indented line never closes the section.
ParseLineNeverClosing(st, line) ==
    IF HeaderSection(line) # NoSection
    THEN [st EXCEPT !.current_section = HeaderSection(line)]
    ELSE IF st.current_section # NoSection /\ IsIndented(line)
         THEN [st EXCEPT !.status_info = ExtractEntry(st.current_section, @, line)]
         ELSE st

\* The loop body in which the hint phrases are looked for in every line of
\* an open section, indented or not.
ParseLineHintFirst(st, line) ==
    IF HeaderSection(line) # NoSection
    THEN [st EXCEPT !.current_section = HeaderSection(line)]
    ELSE IF st.current_section # NoSection
         THEN IF strip(line) # <<>> /\ IsHint(line)
              THEN st
              ELSE IF strip(line) # <<>> /\ ~IsIndented(line)
                   THEN [st EXCEPT !.current_section = NoSection]
                   ELSE [st EXCEPT !.status_info =
                                       ExtractEntry(st.current_section, @, line)]
         ELSE st

\* The loop body in which a blank line closes the section.
ParseLineBlankClosing(st, line) ==
    IF HeaderSection(line) # NoSection
    THEN [st EXCEPT !.current_section = HeaderSection(line)]
    ELSE IF st.current_section # NoSection
         THEN IF strip(line) = <<>> \/ (~IsIndented(line) /\ ~IsHint(line))
              THEN [st EXCEPT !.current_section = NoSection]
              ELSE IF ~IsIndented(line)
                   THEN st
                   ELSE [st EXCEPT !.status_info =
                                       ExtractEntry(st.current_section, @, line)]
         ELSE st

\* The whole loop body on one line: the parser state after the line.
\* st is [current_section, status_info].
ParseLine(st, line) ==
    IF HeaderSection(line) # NoSection
    THEN [st EXCEPT !.current_section = HeaderSection(line)]
    ELSE IF st.current_section # NoSection
         THEN IF strip(line) = <<>>
              THEN [st EXCEPT !.status_info =
                                  ExtractEntry(st.current_section, @, line)]
              ELSE IF ~IsIndented(line)
                   THEN IF IsHint(line)
                        THEN st
                        ELSE [st EXCEPT !.current_section = NoSection]
                   ELSE [st EXCEPT !.status_info =
                                       ExtractEntry(st.current_section, @, line)]
         ELSE st

\* The return statement without its test: the record is returned as it is.
ReturnValueUntested(info) == info

\* The return statement after the loop.
ReturnValue(info) ==
    IF info.modified # <<>> \/ info.staged # <<>> \/ info.untracked # <<>>
    THEN info
    ELSE None

\* The loop run to its end over ls, from parser state st.
RECURSIVE ParseFrom(_, _)
ParseFrom(st, ls) ==
    IF ls = <<>> THEN st ELSE ParseFrom(ParseLine(st, Head(ls)), Tail(ls))

\* The parsing part of get_git_status on the captured stdout.
ParseOutput(output) ==
    ReturnValue(ParseFrom([current_section |-> NoSection, status_info |-> EmptyInfo],
                          split(output, "\n")).status_info)


(***************************************************************************)
(* The status texts the invocation can hand to the parser.                 *)
(***************************************************************************)
\* '\t# Untracked files: x': an untracked header, indented and decorated.
LineDecoratedHeader == <<"\t", "#", " ">> \o MarkerUntracked \o <<" ", "x">>

\* 'untracked files:': the untracked marker in lower case.
LineLowerHeader == lower(MarkerUntracked)

\* 'Changes not staged for commit: Changes to be committed:': two markers
\* in one line.
LineTwoMarkers == MarkerModified \o <<" ">> \o MarkerStaged

\* 'Untracked files: Changes not staged for commit:'
LineTwoMarkersB == MarkerUntracked \o <<" ">> \o MarkerModified

\* '\tmodified:   a.txt': a tab-indented entry with a status prefix.
LineEntryTab ==
    <<"\t","m","o","d","i","f","i","e","d",":"," "," "," ","a",".","t","x","t">>

\* '\trenamed:   no changes added: x': a tab-indented entry whose file name
\* holds a hint phrase and a second colon.
LineEntryHintColons ==
    <<"\t","r","e","n","a","m","e","d",":"," "," "," ","n","o"," ","c","h","a",
      "n","g","e","s"," ","a","d","d","e","d",":"," ","x">>

\* '  b.txt': an entry indented by two spaces.
LineEntrySpaces == <<" "," ","b",".","t","x","t">>

\* '\tb.txt': a tab-indented path.
LineEntryB == <<"\t","b",".","t","x","t">>

\* ' c.txt': a line indented by exactly one space.
LineOneSpace == <<" ","c",".","t","x","t">>

\* '\rd.txt': a line indented by a whitespace character other than tab or space.
LineOtherSpace == <<"\r","d",".","t","x","t">>

\* '  (use "git add")': an indented parenthetical hint.
LineParenHint ==
    <<" "," ","(","u","s","e"," ","\"","g","i","t"," ","a","d","d","\"",")">>

\* '  (use "git add <file>..." to update what will be committed)'
LineParenHintLong ==
    <<" "," ","(","u","s","e"," ","\"","g","i","t"," ","a","d","d"," ","<",
      "f","i","l","e",">",".",".",".","\""," ","t","o"," ","u","p","d","a",
      "t","e"," ","w","h","a","t"," ","w","i","l","l"," ","b","e"," ","c",
      "o","m","m","i","t","t","e","d",")">>

\* 'No Changes Added to commit': a non-indented hint, in mixed case.
LineHint ==
    <<"N","o"," ","C","h","a","n","g","e","s"," ","A","d","d","e","d"," ",
      "t","o"," ","c","o","m","m","i","t">>

\* ' ': a whitespace-only line.
LineBlank == <<" ">>

\* 'On branch main': a non-indented line that is neither header nor hint.
LineBoundary == <<"O","n"," ","b","r","a","n","c","h"," ","m","a","i","n">>

\* The lines the bounded texts are made of.
Lines ==
    { MarkerStaged, MarkerModified, LineDecoratedHeader, LineLowerHeader,
      LineTwoMarkers, LineTwoMarkersB, LineEntryTab, LineEntryHintColons,
      LineEntrySpaces, LineOneSpace, LineOtherSpace, LineParenHint, LineHint, LineBlank,
      LineBoundary }

\* The "section boundary" text: a modified section with git's hint and one
\* entry, an empty line, an untracked section with one entry.
SectionBoundaryLines ==
    << MarkerModified, LineParenHintLong, LineEntryTab, <<>>,
       MarkerUntracked, LineEntryB >>

\* A partially staged file: the same path under the staged header and under
\* the modified header.
PartiallyStagedLines ==
    << MarkerStaged, LineEntryTab, MarkerModified, LineEntryTab >>

\* Every stdout the model lets `git status` produce.
Outputs ==
    { join(ls) : ls \in UNION { [1..n -> Lines] : n \in 0..MaxLines } }
        \cup { join(SectionBoundaryLines), join(PartiallyStagedLines) }

(***************************************************************************)
(* get_git_status, step by step.                                           *)
(***************************************************************************)
Init ==
    /\ pc = "run"
    /\ invocation = "pending"
    /\ lines = <<>>
    /\ idx = 0
    /\ current_section = NoSection
    /\ status_info = EmptyInfo
    /\ returned = None
    /\ error_printed = FALSE
    /\ calls = <<>>
    /\ git_dirs = {}
    /\ unreadable = {}
    /\ scan_pc = "done"
    /\ walk_stack = <<>>
    /\ visited = <<>>
    /\ scan_git_repos = <<>>
    /\ main_pc = "exit"
    /\ repos_in_dir = <<>>
    /\ git_repos = <<>>
    /\ repos_with_changes = <<>>
    /\ total_modified_count = 0
    /\ total_staged_count = 0
    /\ total_untracked_count = 0
    /\ summary = "none"
    /\ outcomes = <<>>

\* subprocess.run raises (git missing, undecodable output): the except
\* branch prints the error and returns None.
RunRaises ==
    /\ pc = "run"
    /\ invocation' = "raised"
    /\ error_printed' = TRUE
    /\ returned' = None
    /\ pc' = "done"
    /\ UNCHANGED <<lines, idx, current_section, status_info, calls, main_vars,
                   scan_vars>>

\* git status exits with a non-zero code: return None.
RunFails ==
    /\ pc = "run"
    /\ invocation' = "nonzero"
    /\ returned' = None
    /\ pc' = "done"
    /\ UNCHANGED <<lines, idx, current_section, status_info, error_printed,
                   calls, main_vars, scan_vars>>

\* The start of the parse that keeps the section and the buckets it finds.
RunOkKeepingState(texts) ==
    /\ pc = "run"
    /\ invocation' = "ok"
    /\ \E output \in texts : lines' = split(output, "\n")
    /\ idx' = 0
    /\ pc' = "loop"
    /\ UNCHANGED <<current_section, status_info, returned, error_printed, calls,
                   main_vars, scan_vars>>

\* git status succeeds with one of `texts` as its stdout: make the empty
\* buckets, split the stdout, set the section to none and enter the loop.
RunOkFrom(texts) ==
    /\ pc = "run"
    /\ invocation' = "ok"
    /\ \E output \in texts : lines' = split(output, "\n")
    /\ idx' = 0
    /\ current_section' = NoSection
    /\ status_info' = EmptyInfo
    /\ pc' = "loop"
    /\ UNCHANGED <<returned, error_printed, calls, main_vars, scan_vars>>

\* git status succeeds: split its stdout and enter the loop.
RunOk == RunOkFrom(Outputs)

\* One iteration of `for line in lines`.
ReadLine ==
    /\ pc = "loop"
    /\ idx < Len(lines)
    /\ LET st == ParseLine([current_section |-> current_section,
                            status_info |-> status_info], lines[idx + 1])
       IN  /\ current_section' = st.current_section
           /\ status_info' = st.status_info
    /\ idx' = idx + 1
    /\ UNCHANGED <<pc, lines, returned, invocation, error_printed, calls,
                   main_vars, scan_vars>>

\* The loop is over: return the record, or None when it is empty.
Return ==
    /\ pc = "loop"
    /\ idx = Len(lines)
    /\ returned' = ReturnValue(status_info)
    /\ pc' = "done"
    /\ UNCHANGED <<lines, idx, current_section, status_info, invocation,
                   error_printed, calls, main_vars, scan_vars>>

Next == RunRaises \/ RunFails \/ RunOk \/ ReadLine \/ Return

Spec == Init /\ [][Next]_vars

(***************************************************************************)
(* The file system under the parent directory, and the locator.            *)
(***************************************************************************)
\* A path is the sequence of directory names below the parent directory;
\* the parent directory itself is the empty path.
ParentDir == <<>>

NameA == <<"A">>
NameB == <<"B">>
NameC == <<"C">>
NameD == <<"D">>
NameHidden == <<".", "h">>

\* The sub-directories of a directory, in the order os.walk lists them:
\* the parent directory holds A, .h, C and D, and A and .h each hold B.
listdir(path) ==
    IF path = ParentDir THEN <<NameA, NameHidden, NameC, NameD>>
    ELSE IF path = <<NameA>> THEN <<NameB>>
    ELSE IF path = <<NameHidden>> THEN <<NameB>>
    ELSE <<>>

\* Every directory of the tree.
AllDirs ==
    { ParentDir, <<NameA>>, <<NameA, NameB>>, <<NameHidden>>,
      <<NameHidden, NameB>>, <<NameC>>, <<NameD>> }

\* os.path.isdir(os.path.join(folder_path, '.git'))
is_git_repo(folder_path) == folder_path \in git_dirs

\* The filter that lets every name through.
NotHiddenAny(d) == TRUE

\* not d.startswith('.')
NotHidden(d) == ~startswith(d, <<".">>)

\* os.path.basename(repo_path); the parent directory has a name of its own.
basename(path) == IF path = <<>> THEN <<"p">> ELSE path[Len(path)]

\* The walk from one directory: os.walk passes over a directory it cannot
\* list; a repository is emitted and not entered; otherwise the walk goes
\* on in the sub-directories that are not hidden.
RECURSIVE walk(_), walk_all(_, _)
walk(root) ==
    IF root \in unreadable
    THEN <<>>
    ELSE IF is_git_repo(root)
    THEN <<root>>
    ELSE walk_all(root, SelectSeq(listdir(root), NotHidden))

walk_all(root, dirs) ==
    IF dirs = <<>> THEN <<>>
    ELSE walk(Append(root, Head(dirs))) \o walk_all(root, Tail(dirs))

scan_directory_for_git_repos(directory) == walk(directory)

(***************************************************************************)
(* scan_directory_for_git_repos step by step: one action for each          *)
(* directory os.walk comes to.                                             *)
(***************************************************************************)
\* The paths of the sub-directories `dirs` of `root`.
ChildPaths(root, dirs) == [k \in 1..Len(dirs) |-> Append(root, dirs[k])]

InitScan ==
    /\ pc = "done"
    /\ invocation = "pending"
    /\ lines = <<>>
    /\ idx = 0
    /\ current_section = NoSection
    /\ status_info = EmptyInfo
    /\ returned = None
    /\ error_printed = FALSE
    /\ calls = <<>>
    /\ git_dirs \in SUBSET AllDirs
    /\ unreadable \in SUBSET AllDirs
    /\ scan_pc = "walk"
    /\ walk_stack = <<ParentDir>>
    /\ visited = <<>>
    /\ scan_git_repos = <<>>
    /\ main_pc = "exit"
    /\ repos_in_dir = <<>>
    /\ git_repos = <<>>
    /\ repos_with_changes = <<>>
    /\ total_modified_count = 0
    /\ total_staged_count = 0
    /\ total_untracked_count = 0
    /\ summary = "none"
    /\ outcomes = <<>>

\* An unreadable directory ends the whole walk, as an exception reaching
\* the handler around the loop would.
WalkUnreadableStops ==
    /\ scan_pc = "walk"
    /\ walk_stack # <<>>
    /\ Head(walk_stack) \in unreadable
    /\ walk_stack' = <<>>
    /\ UNCHANGED <<parser_vars, error_printed, calls, main_vars, unreadable,
                   scan_pc, visited, scan_git_repos>>

\* os.walk cannot list the next directory: it was called without onerror,
\* so the directory is passed over, nothing is yielded for it, and the walk
\* goes on with what is left.
WalkUnreadable ==
    /\ scan_pc = "walk"
    /\ walk_stack # <<>>
    /\ Head(walk_stack) \in unreadable
    /\ walk_stack' = Tail(walk_stack)
    /\ UNCHANGED <<parser_vars, error_printed, calls, main_vars, unreadable,
                   scan_pc, visited, scan_git_repos>>

\* The repository is emitted and its sub-directories are walked all the same.
WalkRepoEntered ==
    /\ scan_pc = "walk"
    /\ walk_stack # <<>>
    /\ Head(walk_stack) \notin unreadable
    /\ is_git_repo(Head(walk_stack))
    /\ visited' = Append(visited, Head(walk_stack))
    /\ scan_git_repos' = Append(scan_git_repos, Head(walk_stack))
    /\ walk_stack' = ChildPaths(Head(walk_stack), listdir(Head(walk_stack)))
                         \o Tail(walk_stack)
    /\ UNCHANGED <<parser_vars, error_printed, calls, main_vars, unreadable,
                   scan_pc>>

\* The loop body for a directory that is a repository: append it, clear
\* dirs so that os.walk does not enter it, continue.
WalkRepo ==
    /\ scan_pc = "walk"
    /\ walk_stack # <<>>
    /\ Head(walk_stack) \notin unreadable
    /\ is_git_repo(Head(walk_stack))
    /\ visited' = Append(visited, Head(walk_stack))
    /\ scan_git_repos' = Append(scan_git_repos, Head(walk_stack))
    /\ walk_stack' = Tail(walk_stack)
    /\ UNCHANGED <<parser_vars, error_printed, calls, main_vars, unreadable,
                   scan_pc>>

\* The loop body for a directory that is not a repository: the hidden
\* sub-directories are removed from dirs, and os.walk goes on in the others.
WalkDescend ==
    /\ scan_pc = "walk"
    /\ walk_stack # <<>>
    /\ Head(walk_stack) \notin unreadable
    /\ ~is_git_repo(Head(walk_stack))
    /\ visited' = Append(visited, Head(walk_stack))
    /\ walk_stack' = ChildPaths(Head(walk_stack),
                                SelectSeq(listdir(Head(walk_stack)), NotHidden))
                         \o Tail(walk_stack)
    /\ UNCHANGED <<parser_vars, error_printed, calls, main_vars, unreadable,
                   scan_pc, scan_git_repos>>

\* os.walk is exhausted: return git_repos.
ScanReturn ==
    /\ scan_pc = "walk"
    /\ walk_stack = <<>>
    /\ scan_pc' = "done"
    /\ UNCHANGED <<parser_vars, error_printed, calls, main_vars, unreadable,
                   walk_stack, visited, scan_git_repos>>

NextScan == WalkUnreadable \/ WalkRepo \/ WalkDescend \/ ScanReturn

SpecScan == InitScan /\ [][NextScan]_vars

(***************************************************************************)
(* main: what `git status` can do for one root, get_git_status as a whole, *)
(* and the loop over the roots.                                            *)
(***************************************************************************)
\* 'On branch main\nnothing to commit, working tree clean\n'
CleanOutput ==
    LineBoundary \o <<"\n">> \o
    <<"n","o","t","h","i","n","g"," ","t","o"," ","c","o","m","m","i","t",","," ",
      "w","o","r","k","i","n","g"," ","t","r","e","e"," ","c","l","e","a","n">>
    \o <<"\n">>

\* The stdout of the runs main is given.
MainOutputs ==
    { <<>>,
      CleanOutput,
      join(SectionBoundaryLines),
      join(<<LineBoundary, MarkerStaged, LineEntryTab, LineEntrySpaces>>) }

\* What subprocess.run can do: raise, exit non-zero, or exit 0 with a stdout.
Runs ==
    { [kind |-> "raised", stdout |-> <<>>], [kind |-> "nonzero", stdout |-> <<>>] }
        \cup { [kind |-> "ok", stdout |-> o] : o \in MainOutputs }

\* An exception that leaves a call instead of a return value.
Raised == [raised |-> TRUE]

\* get_git_status without its except branch: the exception leaves the call.
get_git_status_no_except(run) ==
    IF run.kind = "raised" THEN Raised
    ELSE IF run.kind = "nonzero" THEN None
    ELSE ParseOutput(run.stdout)

\* get_git_status(repo_path), from the call to the return.
get_git_status(run) ==
    IF run.kind = "raised" THEN None
    ELSE IF run.kind = "nonzero" THEN None
    ELSE ParseOutput(run.stdout)

InitMain ==
    /\ pc = "run"
    /\ invocation = "pending"
    /\ lines = <<>>
    /\ idx = 0
    /\ current_section = NoSection
    /\ status_info = EmptyInfo
    /\ returned = None
    /\ error_printed = FALSE
    /\ calls = <<>>
    /\ git_dirs \in SUBSET AllDirs
    /\ unreadable \in {{}, {<<NameA>>}}
    /\ scan_pc = "done"
    /\ walk_stack = <<>>
    /\ visited = <<>>
    /\ scan_git_repos = <<>>
    /\ main_pc = "scan"
    /\ repos_in_dir = <<>>
    /\ git_repos = <<>>
    /\ repos_with_changes = <<>>
    /\ total_modified_count = 0
    /\ total_staged_count = 0
    /\ total_untracked_count = 0
    /\ summary = "none"
    /\ outcomes = <<>>

\* repos_in_dir = scan_directory_for_git_repos(parent_dir)
Scan ==
    /\ main_pc = "scan"
    /\ repos_in_dir' = scan_directory_for_git_repos(ParentDir)
    /\ main_pc' = "loop"
    /\ UNCHANGED <<parser_vars, error_printed, calls, git_dirs, git_repos,
                   repos_with_changes, total_modified_count, total_staged_count,
                   total_untracked_count, summary, outcomes, scan_vars>>

\* The iteration with the staged total fed from the modified bucket.
ProcessRepoStagedFromModified ==
    /\ main_pc = "loop"
    /\ Len(git_repos) < Len(repos_in_dir)
    /\ \E run \in Runs :
         LET repo_path == repos_in_dir[Len(git_repos) + 1]
             repo_name == basename(repo_path)
             info == get_git_status(run)
         IN  /\ outcomes' = Append(outcomes, run)
             /\ git_repos' = Append(git_repos, repo_path)
             /\ error_printed' = (error_printed \/ run.kind = "raised")
             /\ IF info = Raised
                THEN /\ main_pc' = "aborted"
                     /\ UNCHANGED <<repos_with_changes, total_modified_count,
                                    total_staged_count, total_untracked_count>>
                ELSE /\ main_pc' = main_pc
                     /\ IF info # None
                        THEN /\ repos_with_changes' =
                                    Append(repos_with_changes,
                                           [name |-> repo_name, path |-> repo_path,
                                            status |-> info])
                             /\ total_modified_count' =
                                    total_modified_count + Len(info.modified)
                             /\ total_staged_count' =
                                    total_staged_count + Len(info.modified)
                             /\ total_untracked_count' =
                                    total_untracked_count + Len(info.untracked)
                        ELSE UNCHANGED <<repos_with_changes, total_modified_count,
                                         total_staged_count, total_untracked_count>>
    /\ UNCHANGED <<parser_vars, calls, git_dirs, repos_in_dir, summary, scan_vars>>

\* The iteration that puts a changed repository at the front of the list.
ProcessRepoPrepending ==
    /\ main_pc = "loop"
    /\ Len(git_repos) < Len(repos_in_dir)
    /\ \E run \in Runs :
         LET repo_path == repos_in_dir[Len(git_repos) + 1]
             repo_name == basename(repo_path)
             info == get_git_status(run)
         IN  /\ outcomes' = Append(outcomes, run)
             /\ git_repos' = Append(git_repos, repo_path)
             /\ error_printed' = (error_printed \/ run.kind = "raised")
             /\ IF info = Raised
                THEN /\ main_pc' = "aborted"
                     /\ UNCHANGED <<repos_with_changes, total_modified_count,
                                    total_staged_count, total_untracked_count>>
                ELSE /\ main_pc' = main_pc
                     /\ IF info # None
                        THEN /\ repos_with_changes' =
                                    << [name |-> repo_name, path |-> repo_path,
                                        status |-> info] >> \o repos_with_changes
                             /\ total_modified_count' =
                                    total_modified_count + Len(info.modified)
                             /\ total_staged_count' =
                                    total_staged_count + Len(info.staged)
                             /\ total_untracked_count' =
                                    total_untracked_count + Len(info.untracked)
                        ELSE UNCHANGED <<repos_with_changes, total_modified_count,
                                         total_staged_count, total_untracked_count>>
    /\ UNCHANGED <<parser_vars, calls, git_dirs, repos_in_dir, summary, scan_vars>>

\* One iteration of `for repo_path in repos_in_dir`.  main has no handler
\* of its own: an exception leaving get_git_status would end the run.
ProcessRepo ==
    /\ main_pc = "loop"
    /\ Len(git_repos) < Len(repos_in_dir)
    /\ \E run \in Runs :
         LET repo_path == repos_in_dir[Len(git_repos) + 1]
             repo_name == basename(repo_path)
             info == get_git_status(run)
         IN  /\ outcomes' = Append(outcomes, run)
             /\ git_repos' = Append(git_repos, repo_path)
             /\ error_printed' = (error_printed \/ run.kind = "raised")
             /\ IF info = Raised
                THEN /\ main_pc' = "aborted"
                     /\ UNCHANGED <<repos_with_changes, total_modified_count,
                                    total_staged_count, total_untracked_count>>
                ELSE /\ main_pc' = main_pc
                     /\ IF info # None
                        THEN /\ repos_with_changes' =
                                    Append(repos_with_changes,
                                           [name |-> repo_name, path |-> repo_path,
                                            status |-> info])
                             /\ total_modified_count' =
                                    total_modified_count + Len(info.modified)
                             /\ total_staged_count' =
                                    total_staged_count + Len(info.staged)
                             /\ total_untracked_count' =
                                    total_untracked_count + Len(info.untracked)
                        ELSE UNCHANGED <<repos_with_changes, total_modified_count,
                                         total_staged_count, total_untracked_count>>
    /\ UNCHANGED <<parser_vars, calls, git_dirs, repos_in_dir, summary, scan_vars>>

\* The report after the loop: the details and totals of the repositories
\* with changes, or the line saying that all repositories are clean.
Report ==
    /\ main_pc = "loop"
    /\ Len(git_repos) = Len(repos_in_dir)
    /\ summary' = IF repos_with_changes # <<>> THEN "changes" ELSE "all_clean"
    /\ main_pc' = "exit"
    /\ UNCHANGED <<parser_vars, error_printed, calls, git_dirs, repos_in_dir,
                   git_repos, repos_with_changes, total_modified_count,
                   total_staged_count, total_untracked_count, outcomes, scan_vars>>

NextMain == Scan \/ ProcessRepo \/ Report

SpecMain == InitMain /\ [][NextMain]_vars

\* main runs on: a step that can be taken is taken.
SpecMainFair == SpecMain /\ WF_vars(NextMain)

(***************************************************************************)
(* get_git_status called again and again, as main's loop calls it for one  *)
(* root after the other.  What the last call left in the parser's          *)
(* variables is still there when the next call starts.                     *)
(***************************************************************************)
\* The call has returned and the loop of main makes the next one.
NewCall ==
    /\ pc = "done"
    /\ Len(calls) + 1 < MaxCalls
    /\ calls' = IF invocation = "ok"
                THEN Append(calls, [lines |-> lines, returned |-> returned])
                ELSE calls
    /\ pc' = "run"
    /\ invocation' = "pending"
    /\ UNCHANGED <<lines, idx, current_section, status_info, returned,
                   error_printed, main_vars, scan_vars>>

\* git status succeeds with one of the texts main is given.
CallOk == RunOkFrom(MainOutputs)

NextCalls == RunRaises \/ RunFails \/ CallOk \/ ReadLine \/ Return \/ NewCall

SpecCalls == Init /\ [][NextCalls]_vars


(***************************************************************************)
(* Vocabulary of the properties: the classes of lines, stated on the text  *)
(* itself, and the steps of the run.                                       *)
(***************************************************************************)
\* The buckets whose marker phrase occurs in the line, with the exact case.
MarkersIn(line) ==
    { b \in {"staged", "modified", "untracked"} :
        \/ b = "staged" /\ contains(line, MarkerStaged)
        \/ b = "modified" /\ contains(line, MarkerModified)
        \/ b = "untracked" /\ contains(line, MarkerUntracked) }

\* The buckets whose marker phrase occurs in the line when case is ignored.
MarkersIgnoringCaseIn(line) ==
    { b \in {"staged", "modified", "untracked"} :
        \/ b = "staged" /\ contains(lower(line), lower(MarkerStaged))
        \/ b = "modified" /\ contains(lower(line), lower(MarkerModified))
        \/ b = "untracked" /\ contains(lower(line), lower(MarkerUntracked)) }

\* A header line: it contains a marker phrase.
HeaderLine(line) == MarkersIn(line) # {}

\* A line of whitespace only (the empty line included).
BlankLine(line) == \A k \in 1..Len(line) : line[k] \in Whitespace

\* The line starts with a tab or with two spaces.
TabOrTwoSpaces(line) ==
    \/ Len(line) >= 1 /\ line[1] = "\t"
    \/ Len(line) >= 2 /\ line[1] = " " /\ line[2] = " "

\* The line holds one of the three hint phrases, case ignored.
HintLine(line) ==
    \E h \in {HintUseGit, HintInclude, HintNoChanges} : contains(lower(line), h)

\* The first non-whitespace character of the line, "" when there is none.
FirstInk(line) ==
    IF BlankLine(line) THEN ""
    ELSE line[CHOOSE k \in 1..Len(line) :
                  line[k] \notin Whitespace /\ \A j \in 1..(k - 1) : line[j] \in Whitespace]

\* An entry-shaped line: indented, not a header, with text that does not
\* start with an opening parenthesis.
EntryLine(line) ==
    /\ ~HeaderLine(line)
    /\ TabOrTwoSpaces(line)
    /\ ~BlankLine(line)
    /\ FirstInk(line) # "("

\* A boundary line: not a header, not blank, not indented, not a hint.
BoundaryLine(line) ==
    /\ ~HeaderLine(line)
    /\ ~BlankLine(line)
    /\ ~TabOrTwoSpaces(line)
    /\ ~HintLine(line)

\* A section is open.
SectionOpen == current_section \in {"staged", "modified", "untracked"}

\* The step is one iteration of the loop; the line it reads is lines[idx + 1].
Reading == pc = "loop" /\ idx < Len(lines) /\ idx' = idx + 1

\* The step changes no bucket.
BucketsUnchanged == status_info' = status_info

\* The parser ran to its end (the invocation did not fail).
Parsed == pc = "done" /\ invocation = "ok"

\* No bucket holds an entry.
AllEmpty(info) == info.staged = <<>> /\ info.modified = <<>> /\ info.untracked = <<>>

(***************************************************************************)
(* C1: whatever the text, the parser returns None exactly when the three   *)
(* buckets are empty after the pass, and otherwise returns the record,     *)
(* which then has a non-empty bucket; it never returns an empty record and *)
(* never takes the exception branch.                                       *)
(***************************************************************************)
C1_NoneIffAllBucketsEmpty ==
    Parsed =>
        /\ idx = Len(lines)
        /\ ~error_printed
        /\ (returned = None) <=> AllEmpty(status_info)
        /\ returned # None => (returned = status_info /\ ~AllEmpty(returned))

\* A text with a header and entries was parsed to a record.
C1_Witness ==
    /\ Parsed
    /\ Len(lines) >= 2
    /\ returned # None
    /\ returned.staged # <<>>

\* The positions of the roots whose invocation failed.
FailedRoots == { k \in 1..Len(outcomes) : outcomes[k].kind # "ok" }

(***************************************************************************)
(* C2: a root whose status invocation failed (exception or non-zero exit)  *)
(* is counted among the discovered repositories, is not among the          *)
(* repositories with changes, and is not taken for clean: a run in which   *)
(* some invocation failed and no root has changes does not end with the    *)
(* "all repositories are clean" report.                                    *)
(***************************************************************************)
C2_FailedRootIsNotReportedClean ==
    main_pc = "exit" =>
        /\ Len(git_repos) = Len(repos_in_dir)
        /\ \A k \in FailedRoots :
               \A j \in 1..Len(repos_with_changes) :
                   repos_with_changes[j].path # git_repos[k]
        /\ (FailedRoots # {} /\ repos_with_changes = <<>>) => summary # "all_clean"

\* The run with exit code 0 and the stdout of a clean working tree in place
\* of a failed one.
AsIfClean(run) ==
    IF run.kind = "ok" THEN run ELSE [kind |-> "ok", stdout |-> CleanOutput]

\* The list and the totals that roots whose status texts are texts give.
RECURSIVE ReportOf(_, _)
ReportOf(roots, texts) ==
    IF roots = <<>>
    THEN [changes |-> <<>>, modified |-> 0, staged |-> 0, untracked |-> 0]
    ELSE LET n == Len(roots)
             before == ReportOf(SubSeq(roots, 1, n - 1), SubSeq(texts, 1, n - 1))
             info == ParseOutput(texts[n])
         IN  IF info = None THEN before
             ELSE [changes |-> Append(before.changes,
                                      [name |-> basename(roots[n]),
                                       path |-> roots[n], status |-> info]),
                   modified |-> before.modified + Len(info.modified),
                   staged |-> before.staged + Len(info.staged),
                   untracked |-> before.untracked + Len(info.untracked)]

(***************************************************************************)
(* C3: a failed status invocation never ends the run: every discovered     *)
(* root is looked at, in order; a failed root adds nothing to the list of  *)
(* repositories with changes nor to the three totals; and the list and the *)
(* totals are what they would be had each failed root been clean.          *)
(***************************************************************************)
C3_FailedRootDoesNotStopTheRun ==
    /\ main_pc # "aborted"
    /\ main_pc = "exit" => git_repos = repos_in_dir
    /\ Len(outcomes) = Len(git_repos)
    /\ \A k \in FailedRoots :
           \A j \in 1..Len(repos_with_changes) :
               repos_with_changes[j].path # git_repos[k]
    /\ [changes |-> repos_with_changes,
        modified |-> total_modified_count,
        staged |-> total_staged_count,
        untracked |-> total_untracked_count]
         = ReportOf(git_repos,
                    [k \in 1..Len(outcomes) |-> AsIfClean(outcomes[k]).stdout])

\* Three roots: the first raised, the second has changes, the third exited
\* non-zero; the run reached its end and reports the second root alone.
C3_Witness ==
    /\ main_pc = "exit"
    /\ Len(git_repos) = 3
    /\ outcomes[1].kind = "raised"
    /\ outcomes[2].kind = "ok"
    /\ outcomes[3].kind = "nonzero"
    /\ Len(repos_with_changes) = 1
    /\ repos_with_changes[1].path = git_repos[2]
    /\ total_modified_count + total_staged_count + total_untracked_count > 0

(***************************************************************************)
(* C4: once a section is open, a boundary line (non-blank, not indented,   *)
(* not a hint, and not itself a header) sets the current section to none   *)
(* and adds no entry; from then on no line adds an entry to any bucket and *)
(* the section stays none, until a header line is read.                    *)
(***************************************************************************)
C4_BoundaryClosesUntilHeader ==
    [][ Reading =>
          LET line == lines[idx + 1]
          IN  /\ (SectionOpen /\ BoundaryLine(line)) =>
                    (current_section' = NoSection /\ BucketsUnchanged)
              /\ (current_section = NoSection /\ ~HeaderLine(line)) =>
                    (current_section' = NoSection /\ BucketsUnchanged)
      ]_vars

\* A header, then a boundary line, then an entry-shaped line: nothing was
\* captured and the section is closed.
C4_Witness ==
    /\ pc = "loop"
    /\ idx = 3
    /\ HeaderLine(lines[1])
    /\ BoundaryLine(lines[2])
    /\ EntryLine(lines[3])
    /\ current_section = NoSection
    /\ AllEmpty(status_info)

\* 'modified: a.txt'
EntryModifiedA ==
    <<"m","o","d","i","f","i","e","d",":"," ","a",".","t","x","t">>

\* 'b.txt'
EntryB == <<"b",".","t","x","t">>

\* s is t with exactly one element appended.
OneMore(s, t) == Len(s) = Len(t) + 1 /\ SubSeq(s, 1, Len(t)) = t

\* Bucket b is the one named by the last header line among the first n lines.
NamedByLastHeader(b, n) ==
    \E j \in 1..n :
        /\ b \in MarkersIn(lines[j])
        /\ \A k \in (j + 1)..n : ~HeaderLine(lines[k])

(***************************************************************************)
(* C5: an entry line (indented, not parenthetical) read while a section is *)
(* open is appended to the bucket of the open section, which is a bucket   *)
(* the most recent header line names, and to no other bucket; and the      *)
(* "section boundary" text gives modified = ['modified: a.txt'],           *)
(* untracked = ['b.txt'] and an empty staged bucket: the hint is in no     *)
(* bucket and the empty line does not merge the sections.                  *)
(***************************************************************************)
C5_EntryGoesToOpenBucket ==
    [][ /\ (Reading /\ SectionOpen /\ EntryLine(lines[idx + 1])) =>
              /\ NamedByLastHeader(current_section, idx)
              /\ current_section' = current_section
              /\ OneMore(status_info'[current_section], status_info[current_section])
              /\ \A b \in {"staged", "modified", "untracked"} \ {current_section} :
                     status_info'[b] = status_info[b]
        /\ (pc = "loop" /\ pc' = "done" /\ lines = SectionBoundaryLines) =>
              returned' = [modified |-> <<EntryModifiedA>>,
                           staged |-> <<>>,
                           untracked |-> <<EntryB>>]
      ]_vars

\* The "section boundary" text has been parsed to a record.
C5_Witness ==
    /\ Parsed
    /\ lines = SectionBoundaryLines
    /\ returned # None
    /\ returned.modified # <<>>
    /\ returned.untracked # <<>>

C7_HintSwallowedElseClosed ==
    [][ LET line == lines[idx + 1]
        IN  ( /\ Reading
              /\ SectionOpen
              /\ ~BlankLine(line)
              /\ ~TabOrTwoSpaces(line)
              /\ ~HeaderLine(line) ) =>
            /\ BucketsUnchanged
            /\ current_section' = IF HintLine(line) THEN current_section
                                                     ELSE NoSection
      ]_vars

\* A mixed-case hint was read in an open section, and the entry line after it
\* was still captured.
C7_Witness ==
    /\ pc = "loop"
    /\ idx = 3
    /\ HeaderLine(lines[1])
    /\ ~TabOrTwoSpaces(lines[2])
    /\ ~HeaderLine(lines[2])
    /\ HintLine(lines[2])
    /\ lines[2] # lower(lines[2])
    /\ EntryLine(lines[3])
    /\ SectionOpen
    /\ ~AllEmpty(status_info)

\* Indented, but neither by a tab nor by two spaces.
OddlyIndented(line) ==
    /\ ~BlankLine(line)
    /\ line[1] \in Whitespace
    /\ ~TabOrTwoSpaces(line)

(***************************************************************************)
(* C8: a line adds an entry only if it starts with a tab or with two       *)
(* spaces; while a section is open, a line (no hint, no header, not blank) *)
(* that starts with one space only, or with another whitespace character,  *)
(* sets the current section to none and adds no entry.                     *)
(***************************************************************************)
C8_OnlyTabOrTwoSpacesIsEntry ==
    [][ Reading =>
          LET line == lines[idx + 1]
          IN  /\ ~BucketsUnchanged => TabOrTwoSpaces(line)
              /\ ( /\ SectionOpen
                   /\ OddlyIndented(line)
                   /\ ~HintLine(line)
                   /\ ~HeaderLine(line) ) =>
                  (current_section' = NoSection /\ BucketsUnchanged)
      ]_vars

\* A line indented by exactly one space was read in an open section: the
\* section is closed and nothing was captured.
C8_Witness ==
    /\ pc = "loop"
    /\ idx = 2
    /\ HeaderLine(lines[1])
    /\ OddlyIndented(lines[2])
    /\ lines[2][1] = " "
    /\ ~HintLine(lines[2])
    /\ ~HeaderLine(lines[2])
    /\ current_section = NoSection
    /\ AllEmpty(status_info)

\* The step opens no section: the section is as before, or none.
OpensNoSection == current_section' \in {current_section, NoSection}

\* The first bucket, in the order staged, modified, untracked, of ms.
FirstOf(ms) ==
    IF "staged" \in ms THEN "staged"
    ELSE IF "modified" \in ms THEN "modified"
    ELSE "untracked"

(***************************************************************************)
(* C9, as stated: a line that contains a marker phrase anywhere, with the  *)
(* exact case, sets the current section to that phrase's bucket and adds   *)
(* no entry, whatever the indentation and the current section; a line that *)
(* holds a marker phrase only up to letter case opens no section.          *)
(***************************************************************************)
C9_EveryMarkerSetsItsSection ==
    [][ Reading =>
          LET line == lines[idx + 1]
          IN  /\ \A b \in MarkersIn(line) :
                     (current_section' = b /\ BucketsUnchanged)
              /\ (MarkersIn(line) = {} /\ MarkersIgnoringCaseIn(line) # {}) =>
                     OpensNoSection
      ]_vars

(***************************************************************************)
(* C9, amended: a line that contains marker phrases sets the current       *)
(* section to the bucket of the first phrase it contains in the order      *)
(* staged, modified, untracked (a line with one phrase: to that phrase's   *)
(* bucket) and adds no entry, whatever the indentation and the current     *)
(* section; a line that holds a marker phrase only up to letter case opens *)
(* no section.                                                             *)
(***************************************************************************)
C9_FirstMarkerSetsSection ==
    [][ Reading =>
          LET line == lines[idx + 1]
          IN  /\ MarkersIn(line) # {} =>
                     (current_section' = FirstOf(MarkersIn(line)) /\ BucketsUnchanged)
              /\ (MarkersIn(line) = {} /\ MarkersIgnoringCaseIn(line) # {}) =>
                     OpensNoSection
      ]_vars

\* A line holding the untracked and the modified marker was read while the
\* staged section was open and held an entry: the section is now modified and
\* nothing was added.
C9_Witness ==
    /\ pc = "loop"
    /\ idx = 3
    /\ MarkersIn(lines[1]) = {"staged"}
    /\ EntryLine(lines[2])
    /\ MarkersIn(lines[3]) = {"modified", "untracked"}
    /\ current_section = "modified"
    /\ Len(status_info.staged) = 1
    /\ status_info.modified = <<>>
    /\ status_info.untracked = <<>>

(***************************************************************************)
(* C10: a text none of whose lines contains a marker phrase yields None,   *)
(* whatever else its lines are.                                            *)
(***************************************************************************)
C10_NoMarkerYieldsNone ==
    (Parsed /\ \A k \in 1..Len(lines) : ~HeaderLine(lines[k])) =>
        returned = None

\* Three lines without a marker were parsed, among them a marker in lower
\* case and an indented entry with a colon: the result is None.
C10_Witness ==
    /\ Parsed
    /\ Len(lines) = 3
    /\ \A k \in 1..3 : ~HeaderLine(lines[k])
    /\ MarkersIgnoringCaseIn(lines[1]) # {}
    /\ EntryLine(lines[2])
    /\ contains(lines[2], <<":">>)
    /\ returned = None

\* The text of a line without its leading and trailing whitespace.
Trimmed(line) == strip(line)

\* The entry an entry line stands for in bucket b: for staged and modified,
\* the trimmed text before the first colon, ': ', and the trimmed text after
\* it (the trimmed line itself when it has no colon); for untracked, the
\* trimmed line itself.
EntryOf(b, line) ==
    LET t == Trimmed(line)
        c == find(t, ":")
    IN  IF b \in {"staged", "modified"} /\ c > 0
        THEN Trimmed(SubSeq(t, 1, c - 1)) \o <<":", " ">>
                 \o Trimmed(SubSeq(t, c + 1, Len(t)))
        ELSE t

\* 'renamed: no changes added: x'
EntryRenamed ==
    <<"r","e","n","a","m","e","d",":"," ","n","o"," ","c","h","a","n","g","e",
      "s"," ","a","d","d","e","d",":"," ","x">>

\* 'renamed:   no changes added: x'
EntryRenamedVerbatim ==
    <<"r","e","n","a","m","e","d",":"," "," "," ","n","o"," ","c","h","a","n",
      "g","e","s"," ","a","d","d","e","d",":"," ","x">>

Yields(run) == get_git_status(run) # None

\* The sum of the lengths of bucket b over the status records of `runs`.
RECURSIVE BucketTotal(_, _)
BucketTotal(runs, b) ==
    IF runs = <<>> THEN 0
    ELSE Len(get_git_status(Head(runs))[b]) + BucketTotal(Tail(runs), b)

(***************************************************************************)
(* C12: after every root, and at the end of the run, the list of changed   *)
(* repositories holds exactly the roots looked at that yielded a status    *)
(* record, with their records, each of the three totals is the sum of the  *)
(* lengths of its bucket over exactly those records, and at the end the    *)
(* number of roots looked at is the number of roots discovered.            *)
(***************************************************************************)
C12_CountsAndTotalsAreSums ==
    LET changed == SelectSeq(outcomes, Yields)
    IN  /\ Len(outcomes) = Len(git_repos)
        /\ Len(repos_with_changes) = Len(changed)
        /\ \A j \in 1..Len(changed) :
              repos_with_changes[j].status = get_git_status(changed[j])
        /\ total_modified_count = BucketTotal(changed, "modified")
        /\ total_staged_count = BucketTotal(changed, "staged")
        /\ total_untracked_count = BucketTotal(changed, "untracked")
        /\ main_pc = "exit" => Len(git_repos) = Len(repos_in_dir)

\* A run over three roots of which two yielded a record, with different
\* totals for the three buckets.
C12_Witness ==
    /\ main_pc = "exit"
    /\ Len(repos_in_dir) = 3
    /\ Len(git_repos) = 3
    /\ Len(repos_with_changes) = 2
    /\ total_modified_count = 1
    /\ total_staged_count = 2
    /\ total_untracked_count = 1

\* Directory a is a proper ancestor of directory d.
Above(a, d) == Len(a) < Len(d) /\ SubSeq(d, 1, Len(a)) = a

\* The elements of a sequence.
Elements(seq) == { seq[k] : k \in 1..Len(seq) }

(***************************************************************************)
(* C13: no returned root lies beneath another returned root, and once a    *)
(* directory holding .git is emitted nothing beneath it is visited or      *)
(* emitted: with .git in A and in A/B the locator returns exactly A.       *)
(***************************************************************************)
C13_NothingBeneathAnEmittedRoot ==
    /\ \A r \in Elements(scan_git_repos) :
          \A d \in Elements(scan_git_repos) \cup Elements(visited)
                       \cup Elements(walk_stack) : ~Above(r, d)
    /\ (scan_pc = "done" /\ unreadable = {}
            /\ git_dirs = {<<NameA>>, <<NameA, NameB>>})
          => scan_git_repos = << <<NameA>> >>

\* The locator has returned A alone for a tree with .git in A and in A/B.
C13_Witness ==
    /\ scan_pc = "done"
    /\ unreadable = {}
    /\ git_dirs = {<<NameA>>, <<NameA, NameB>>}
    /\ scan_git_repos = << <<NameA>> >>

\* The directories that hold .git, have no proper ancestor that holds it,
\* and have no name beginning with a dot on the path down from the scan root.
OutermostVisibleRepos ==
    { d \in AllDirs :
        /\ d \in git_dirs
        /\ \A a \in AllDirs : Above(a, d) => a \notin git_dirs
        /\ \A k \in 1..Len(d) : d[k][1] # "." }

(***************************************************************************)
(* C14: on a tree that is readable throughout, a directory is returned if  *)
(* and only if it holds .git, no proper ancestor of it at or below the     *)
(* scan root holds .git, and no directory name on the path from the scan   *)
(* root (excluded) to it (included) begins with a dot; and it is returned  *)
(* exactly once.                                                           *)
(***************************************************************************)
C14_ReturnedIffOutermostVisibleRepo ==
    (scan_pc = "done" /\ unreadable = {}) =>
        /\ Elements(scan_git_repos) = OutermostVisibleRepos
        /\ Cardinality(Elements(scan_git_repos)) = Len(scan_git_repos)

\* A readable tree with a repository inside the hidden directory, one
\* beneath A and one in C: the last two are returned.
C14_Witness ==
    /\ scan_pc = "done"
    /\ unreadable = {}
    /\ git_dirs = {<<NameHidden, NameB>>, <<NameA, NameB>>, <<NameC>>}
    /\ scan_git_repos = << <<NameA, NameB>>, <<NameC>> >>

\* Directory d is an unreadable directory or lies beneath one.
InUnreadableSubtree(d) ==
    \E u \in unreadable : u = d \/ Above(u, d)

(***************************************************************************)
(* C15: when directories cannot be read, only their subtrees are skipped:  *)
(* the locator returns, without an error, exactly the roots it would       *)
(* return on a readable tree that lie outside the unreadable subtrees.     *)
(***************************************************************************)
C15_OnlyUnreadableSubtreeIsSkipped ==
    scan_pc = "done" =>
        /\ Elements(scan_git_repos) =
              { d \in OutermostVisibleRepos : ~InUnreadableSubtree(d) }
        /\ \A d \in Elements(visited) : ~InUnreadableSubtree(d)

\* A cannot be read: the repository beneath it is skipped, and the
\* repositories in its later siblings C and D are still returned.
C15_Witness ==
    /\ scan_pc = "done"
    /\ unreadable = {<<NameA>>}
    /\ git_dirs = {<<NameA, NameB>>, <<NameC>>, <<NameD>>}
    /\ scan_git_repos = << <<NameC>>, <<NameD>> >>

\* Line k of the text is captured for bucket b: it is an entry line, and
\* the last header line before it names b with nothing but entries, blank
\* lines and hints in between.
CapturedFor(b, k) ==
    /\ EntryLine(lines[k])
    /\ \E j \in 1..(k - 1) :
          /\ HeaderLine(lines[j])
          /\ FirstOf(MarkersIn(lines[j])) = b
          /\ \A m \in (j + 1)..(k - 1) :
                ~HeaderLine(lines[m]) /\ ~BoundaryLine(lines[m])

\* The entries of the lines captured for bucket b among the first n lines,
\* one for each captured line, in the order of the lines.
RECURSIVE CapturedEntries(_, _)
CapturedEntries(b, n) ==
    IF n = 0 THEN <<>>
    ELSE IF CapturedFor(b, n)
         THEN Append(CapturedEntries(b, n - 1), EntryOf(b, lines[n]))
         ELSE CapturedEntries(b, n - 1)

(***************************************************************************)
(* C16: within each bucket the entries are in the order of their source    *)
(* lines and nothing is deduplicated: after any number of lines a bucket   *)
(* holds one entry for each line captured for it so far, in line order, so *)
(* that k captured lines give a bucket of length k; a path listed under    *)
(* the staged header and under the modified header is once in each bucket. *)
(***************************************************************************)
C16_BucketIsCapturedLinesInOrder ==
    (pc \in {"loop", "done"} /\ invocation = "ok") =>
        /\ \A b \in {"staged", "modified", "untracked"} :
              status_info[b] = CapturedEntries(b, idx)
        /\ (pc = "done" /\ lines = PartiallyStagedLines) =>
              /\ returned.staged = <<EntryModifiedA>>
              /\ returned.modified = <<EntryModifiedA>>

\* The same entry line was captured twice for one bucket.
C16_Witness ==
    /\ pc = "done"
    /\ invocation = "ok"
    /\ lines = <<MarkerModified, LineEntryTab, LineEntryTab>>
    /\ returned.modified = <<EntryModifiedA, EntryModifiedA>>

\* The calls that have parsed a text to its end, the one that has just
\* returned included, in the order they were made.
ParsedCalls ==
    calls \o (IF Parsed THEN << [lines |-> lines, returned |-> returned] >>
                        ELSE <<>>)

(***************************************************************************)
(* C17: parsing is deterministic and keeps nothing from one call to the    *)
(* next: every call starts its loop with no section and three empty        *)
(* buckets, and two calls on the same text return equal values, whatever   *)
(* texts were parsed before and between them.                              *)
(***************************************************************************)
C17_SameTextSameResult ==
    /\ (pc = "loop" /\ idx = 0) =>
          current_section = NoSection /\ AllEmpty(status_info)
    /\ \A i, j \in 1..Len(ParsedCalls) :
          ParsedCalls[i].lines = ParsedCalls[j].lines =>
              ParsedCalls[i].returned = ParsedCalls[j].returned

\* A text with changes was parsed, then another text with changes, then the
\* first text again, with the first result.
C17_Witness ==
    /\ Parsed
    /\ Len(calls) = 2
    /\ calls[1].lines = lines
    /\ calls[2].lines # lines
    /\ calls[2].returned # None
    /\ returned # None
    /\ returned = calls[1].returned

\* Sequence a is b with some of its elements left out.
RECURSIVE IsSubsequence(_, _)
IsSubsequence(a, b) ==
    IF a = <<>> THEN TRUE
    ELSE IF b = <<>> THEN FALSE
    ELSE IF Head(a) = Head(b) THEN IsSubsequence(Tail(a), Tail(b))
    ELSE IsSubsequence(a, Tail(b))

\* The paths of the changed repositories, in the order of the list.
ChangedPaths == [k \in 1..Len(repos_with_changes) |-> repos_with_changes[k].path]

(***************************************************************************)
(* C18: the discovered roots are processed one at a time, in discovery     *)
(* order and once each: the roots looked at so far are always the first    *)
(* ones of the discovery sequence and a step looks at no more than the     *)
(* next one; the list of changed repositories is a subsequence of the      *)
(* discovery sequence; and the run comes to its end, with every discovered *)
(* root processed.                                                         *)
(***************************************************************************)
C18_RootsInDiscoveryOrderThenExit ==
    /\ [](/\ Len(git_repos) <= Len(repos_in_dir)
          /\ git_repos = SubSeq(repos_in_dir, 1, Len(git_repos))
          /\ Len(outcomes) = Len(git_repos)
          /\ IsSubsequence(ChangedPaths, git_repos)
          /\ main_pc = "exit" => git_repos = repos_in_dir)
    /\ [][ /\ Len(git_repos') \in {Len(git_repos), Len(git_repos) + 1}
           /\ SubSeq(git_repos', 1, Len(git_repos)) = git_repos
           /\ main_pc' = "exit" => Len(git_repos) = Len(repos_in_dir) ]_vars
    /\ <>(main_pc = "exit")

\* The run has ended over three roots; the first and the third are the
\* changed ones, in that order.
C18_Witness ==
    /\ main_pc = "exit"
    /\ Len(repos_in_dir) = 3
    /\ git_repos = repos_in_dir
    /\ ChangedPaths = << repos_in_dir[1], repos_in_dir[3] >>

\* The buckets the step changes.
ChangedBuckets ==
    { b \in {"staged", "modified", "untracked"} : status_info'[b] # status_info[b] }

(***************************************************************************)
(* C19: a bucket changes only when a line is read while a section is open, *)
(* so that lines read while the section is none add nothing; a line adds   *)
(* at most one entry, to at most one bucket; and no bucket ever holds an   *)
(* empty string or an entry that begins with an opening parenthesis.       *)
(***************************************************************************)
C19_BucketsGrowOnlyInOpenSection ==
    [][ /\ ChangedBuckets # {} => (Reading /\ SectionOpen)
        /\ Cardinality(ChangedBuckets) <= 1
        /\ \A b \in ChangedBuckets : OneMore(status_info'[b], status_info[b])
        /\ \A b \in {"staged", "modified", "untracked"} :
              \A k \in 1..Len(status_info'[b]) :
                 status_info'[b][k] # <<>> /\ status_info'[b][k][1] # "("
      ]_vars

\* An entry line read before any header added nothing, and the same line
\* read after the header added one entry to the header's bucket.
C19_Witness ==
    /\ pc = "loop"
    /\ idx = 3
    /\ lines = <<LineEntryTab, MarkerModified, LineEntryTab>>
    /\ current_section = "modified"
    /\ status_info = [EmptyInfo EXCEPT !.modified = <<EntryModifiedA>>]

(***************************************************************************)
(* C20: the hint phrases are looked for in non-indented lines only: while  *)
(* a section is open, a line that starts with a tab or two spaces, whose   *)
(* trimmed text is not empty and does not begin with an opening            *)
(* parenthesis, is captured as an entry of the open section even when it   *)
(* holds a hint phrase, and it leaves the section open.                    *)
(***************************************************************************)
C20_IndentedHintIsCaptured ==
    [][ (/\ Reading
         /\ SectionOpen
         /\ EntryLine(lines[idx + 1])
         /\ HintLine(lines[idx + 1])) =>
          /\ current_section' = current_section
          /\ ChangedBuckets = {current_section}
          /\ OneMore(status_info'[current_section], status_info[current_section])
          /\ status_info'[current_section][Len(status_info'[current_section])]
                = EntryOf(current_section, lines[idx + 1])
      ]_vars

\* The indented line that holds 'no changes added' was captured in the
\* staged section, and the entry line after it as well.
C20_Witness ==
    /\ pc = "loop"
    /\ idx = 3
    /\ lines = <<MarkerStaged, LineEntryHintColons, LineEntrySpaces>>
    /\ current_section = "staged"
    /\ status_info = [EmptyInfo EXCEPT !.staged = <<EntryRenamed, EntryB>>]

=============================================================================
